---- MODULE Spec2Model ----
(***************************************************************************)
(* State-machine model of the blog server's request handlers               *)
(* (controllers/postControllers.js and the user controllers).              *)
(*                                                                         *)
(* Every handler is an async function: it runs until its next await or     *)
(* until it hands a callback to the filesystem, and other requests run in  *)
(* between.  A request slot holds one invocation: its position (pc), its   *)
(* locals, the filesystem callbacks it still has outstanding, and how      *)
(* often it called next(err) (errs) and res.json (oks).                    *)
(*                                                                         *)
(* One action is the code between two reads or writes of the store or the  *)
(* uploads folder.  The code from a handler's entry to its first store     *)
(* call reads only the request, so it is one action with that call; the    *)
(* code after a handler's last store call only sends the response, so it   *)
(* is one action with that call.                                           *)
(***************************************************************************)
EXTENDS Integers, Sequences, FiniteSets, TLC

\* ---------------------------------------------------------------- bounds
MaxFiles == 3        \* uuid() names handed out in one run
MaxPosts == 2        \* Post ids the store assigns in one run
MaxUsers == 3        \* User ids the store assigns in one run
NumRequests == 2     \* requests of one run of Spec, each in a slot of its own

\* ------------------------------------------------------ program constants
ThumbnailLimit == 2000000
AvatarLimit == 500000
MinDescription == 12
MinPassword == 6

PostIds == 1 .. MaxPosts

\* Request inputs.  "" is a missing (falsy) field, 0 a missing file; a description
\* is modelled by its length (an empty editor holds 11 characters).
Body(title, category, description, size) ==
  [title |-> title, category |-> category, description |-> description, size |-> size]

\* createPost bodies: a complete one, and one for each way to be rejected
CreateBodies ==
  {Body("T1", "Art", 12, ThumbnailLimit),
   Body("", "Art", 12, ThumbnailLimit), Body("T1", "", 12, ThumbnailLimit),
   Body("T1", "Art", 0, ThumbnailLimit), Body("T1", "Art", 12, 0),
   Body("T1", "Unknown", 12, ThumbnailLimit), Body("T1", "Art", 12, ThumbnailLimit + 1)}

\* editPost bodies: complete ones with no file, a file and an oversized file,
\* and one for each way to be rejected
EditBodies ==
  {Body(t, "Art", 12, s) : t \in {"T1", "T2"}, s \in {0, ThumbnailLimit, ThumbnailLimit + 1}}
  \cup {Body("", "Art", 12, 0), Body("T1", "", 12, 0), Body("T1", "Art", 11, 0),
        Body("T1", "Unknown", 12, 0)}

AvatarSizes == {0, AvatarLimit, AvatarLimit + 1}

VARIABLES
  users,        \* User collection: id -> document
  posts,        \* Post collection: id -> document
  files,        \* names of the files in the uploads folder
  uuidCount,    \* uuid() results handed out so far (file n is named n)
  postIdCount,  \* Post ids assigned so far
  reqs,         \* post / avatar requests, one per slot
  ureqs         \* register / login / edit-user requests, one per slot

vars == <<users, posts, files, uuidCount, postIdCount, reqs, ureqs>>

\* the slots requests run in
Slots == 1 .. NumRequests

\* ------------------------------------------------------------- helpers
isValidCategory(category) ==
  category \in {"Agriculture", "Business", "Education", "Entertainment",
                "Art", "Investment", "Uncategorized", "Weather"}

\* editPost: req.user.id == oldPost.creator
IsCreatorAlways(userId, creator) == TRUE
IsCreator(userId, creator) == userId = creator

\* deletePost: post.creator == req.user.id
IsOwnerAlways(creator, userId) == TRUE
IsOwner(creator, userId) == creator = userId

\* the value written back to User.posts: the count read earlier, plus or minus one
userPostCountAtomic(op, read, stored) ==
  IF op = "create" THEN stored + 1 ELSE stored - 1
userPostCountUp(op, read, stored) == read + 1
userPostCount(op, read, stored) ==
  IF op = "create" THEN read + 1 ELSE read - 1

\* Post.findByIdAndDelete
findByIdAndDeleteNothing(ps, id) == ps
findByIdAndDelete(ps, id) == [p \in DOMAIN ps \ {id} |-> ps[p]]

\* a slot with no request in it
NoReq ==
  [op |-> "idle", pc |-> "done", user |-> 0, pid |-> 0, title |-> "",
   category |-> "", description |-> 0, size |-> 0, newFilename |-> 0,
   fileName |-> 0, count |-> 0, unlinkP |-> 0, mvP |-> 0, status |-> 0, errs |-> 0,
   oks |-> 0, crashed |-> FALSE]

\* the handler is entered
Enter(op, u, pid) == [NoReq EXCEPT !.op = op, !.user = u, !.pid = pid, !.pc = "run"]

\* the handler's main flow ends: its locals are dropped; whose request it was,
\* for which post, its outstanding
\* filesystem callbacks and the outcomes signalled so far stay
Ended(q) ==
  [NoReq EXCEPT !.op = q.op, !.user = q.user, !.pid = q.pid, !.status = q.status,
                !.errs = q.errs, !.oks = q.oks, !.crashed = q.crashed,
                !.unlinkP = q.unlinkP, !.mvP = q.mvP]

\* next(new HttpError(message, status)); status 0 is an HttpError built without one
SignalError(q, status) ==
  [q EXCEPT !.status = status, !.errs = IF @ < 2 THEN @ + 1 ELSE @]
NextError(q, status) == Ended(SignalError(q, status))

\* res.status(200).json(...)
Respond(q, status) ==
  Ended([q EXCEPT !.status = status, !.oks = IF @ < 2 THEN @ + 1 ELSE @])

\* no part of the request in slot r is still to run
Finished(r) == reqs[r].pc = "done" /\ reqs[r].unlinkP = 0 /\ reqs[r].mvP = 0
Quiet == \A r \in Slots : Finished(r)

\* Post.create calls that requests already accepted will still make
PendingCreates ==
  Cardinality({r \in Slots : reqs[r].op = "create" /\ reqs[r].pc \in {"mv", "createDoc"}})

UuidLeft == uuidCount < MaxFiles
PostIdLeft == postIdCount + PendingCreates < MaxPosts

Put(r, q) == reqs' = [reqs EXCEPT ![r] = q]

\* ================================================================ createPost
createPost(r, u, title, category, description, size) ==
  /\ IF title = "" \/ category = "" \/ description = 0 \/ size = 0
       THEN Put(r, NextError(Enter("create", u, 0), 422)) /\ UNCHANGED uuidCount
     ELSE IF ~isValidCategory(category)
       THEN Put(r, NextError(Enter("create", u, 0), 422)) /\ UNCHANGED uuidCount
     ELSE IF size > ThumbnailLimit
       THEN Put(r, NextError(Enter("create", u, 0), 422)) /\ UNCHANGED uuidCount
     ELSE /\ UuidLeft /\ PostIdLeft
          /\ uuidCount' = uuidCount + 1
          /\ Put(r, [Enter("create", u, 0) EXCEPT
                       !.title = title, !.category = category,
                       !.description = description,
                       !.newFilename = uuidCount + 1, !.mvP = uuidCount + 1,
                       !.pc = "mv"])
  /\ UNCHANGED <<users, posts, files, postIdCount, ureqs>>

\* const newPost = await Post.create({...}) inside the mv callback
createPost_create(r) ==
  /\ reqs[r].op = "create" /\ reqs[r].pc = "createDoc"
  /\ postIdCount' = postIdCount + 1
  /\ posts' = [p \in DOMAIN posts \cup {postIdCount + 1} |->
                 IF p = postIdCount + 1
                   THEN [title |-> reqs[r].title, category |-> reqs[r].category,
                         description |-> reqs[r].description,
                         thumbnail |-> reqs[r].newFilename, creator |-> reqs[r].user]
                   ELSE posts[p]]
  /\ Put(r, [reqs[r] EXCEPT !.pid = postIdCount + 1, !.pc = "readCount"])
  /\ UNCHANGED <<users, files, uuidCount, ureqs>>

\* const currentUser = await User.findById(req.user.id)     (createPost, deletePost)
readCount(r) ==
  /\ reqs[r].op \in {"create", "delete"} /\ reqs[r].pc = "readCount"
  /\ Put(r, [reqs[r] EXCEPT !.count = users[reqs[r].user].posts, !.pc = "writeCount"])
  /\ UNCHANGED <<users, posts, files, uuidCount, postIdCount, ureqs>>

\* await User.findByIdAndUpdate(req.user.id, {posts: userPostCount}); res.json(...)
\* (the response tells which count the request had read)
writeCount(r) ==
  /\ reqs[r].op \in {"create", "delete"} /\ reqs[r].pc = "writeCount"
  /\ users' = [users EXCEPT ![reqs[r].user].posts =
                 userPostCount(reqs[r].op, reqs[r].count, @)]
  /\ Put(r, [Respond(reqs[r], 200) EXCEPT !.count = reqs[r].count])
  /\ UNCHANGED <<posts, files, uuidCount, postIdCount, ureqs>>

\* ================================================================ getPost
\* rejects: the store call rejects instead of answering
getPost(r, pid, rejects) ==
  /\ Put(r, IF rejects THEN NextError(Enter("get", 0, pid), 0)
            ELSE IF pid \in DOMAIN posts THEN Respond(Enter("get", 0, pid), 200)
            ELSE NextError(Enter("get", 0, pid), 404))
  /\ UNCHANGED <<users, posts, files, uuidCount, postIdCount, ureqs>>

\* ================================================================ editPost
\* up to what follows const oldPost = await Post.findById(postId)
editPost(r, u, pid, title, category, description, size, rejects) ==
  LET q == [Enter("edit", u, pid) EXCEPT !.title = title, !.category = category,
                                         !.description = description, !.size = size] IN
  /\ IF title = "" \/ category = "" \/ description < MinDescription
       THEN Put(r, NextError(q, 422)) /\ UNCHANGED uuidCount
     ELSE IF ~isValidCategory(category)
       THEN Put(r, NextError(q, 422)) /\ UNCHANGED uuidCount
     ELSE IF rejects
       THEN Put(r, NextError(q, 0)) /\ UNCHANGED uuidCount
     ELSE IF pid \notin DOMAIN posts
       THEN Put(r, NextError(q, 404)) /\ UNCHANGED uuidCount
     ELSE IF ~IsCreator(u, posts[pid].creator)
       THEN Put(r, NextError(q, 400)) /\ UNCHANGED uuidCount
     ELSE IF size = 0
       THEN Put(r, [q EXCEPT !.pc = "update"]) /\ UNCHANGED uuidCount
     ELSE IF size > ThumbnailLimit
       \* fs.unlink of the old thumbnail is already issued
       THEN /\ Put(r, NextError([q EXCEPT !.unlinkP = posts[pid].thumbnail], 0))
            /\ UNCHANGED uuidCount
     ELSE /\ UuidLeft
          /\ uuidCount' = uuidCount + 1
          /\ Put(r, [q EXCEPT !.unlinkP = posts[pid].thumbnail,
                              !.newFilename = uuidCount + 1,
                              !.mvP = uuidCount + 1, !.pc = "update"])
  /\ UNCHANGED <<users, posts, files, postIdCount, ureqs>>

\* updatedPost = await Post.findByIdAndUpdate(...); the 400 or the response
editPost_update(r) ==
  LET q == reqs[r] IN
  /\ q.op = "edit" /\ q.pc = "update"
  /\ IF q.pid \in DOMAIN posts
       THEN /\ posts' = [posts EXCEPT ![q.pid] =
                           [@ EXCEPT !.title = q.title, !.category = q.category,
                                     !.description = q.description,
                                     !.thumbnail = IF q.newFilename # 0
                                                     THEN q.newFilename ELSE @]]
            /\ Put(r, Respond(q, 200))
       ELSE /\ Put(r, NextError(q, 400))
            /\ UNCHANGED posts
  /\ UNCHANGED <<users, files, uuidCount, postIdCount, ureqs>>

\* ================================================================ deletePost
\* up to what follows const post = await Post.findById(postId)
deletePost(r, u, pid, rejects) ==
  LET q == Enter("delete", u, pid) IN
  /\ Put(r, IF rejects THEN NextError(q, 0)
            ELSE IF pid \notin DOMAIN posts THEN NextError(q, 404)
            ELSE IF IsOwner(posts[pid].creator, u)
              THEN [q EXCEPT !.fileName = posts[pid].thumbnail,
                             !.unlinkP = posts[pid].thumbnail, !.pc = "unlink"]
            ELSE NextError(q, 401))
  /\ UNCHANGED <<users, posts, files, uuidCount, postIdCount, ureqs>>

\* await Post.findByIdAndDelete(postId) inside the unlink callback
deletePost_delete(r) ==
  /\ reqs[r].op = "delete" /\ reqs[r].pc = "delPost"
  /\ posts' = findByIdAndDelete(posts, reqs[r].pid)
  /\ Put(r, [reqs[r] EXCEPT !.pc = "readCount"])
  /\ UNCHANGED <<users, files, uuidCount, postIdCount, ureqs>>

\* ================================================================ changeAvatar
\* up to what follows const user = await User.findById(req.user.id)
changeAvatar(r, u, size, rejects) ==
  LET q == [Enter("avatar", u, 0) EXCEPT !.size = size]
      old == [q EXCEPT !.unlinkP = users[u].avatar] IN
  /\ IF size = 0
       THEN Put(r, NextError(q, 422)) /\ UNCHANGED uuidCount
     ELSE IF rejects
       THEN Put(r, NextError(q, 0)) /\ UNCHANGED uuidCount
     ELSE IF size > AvatarLimit
       \* fs.unlink of the old avatar is already issued
       THEN Put(r, NextError(old, 0)) /\ UNCHANGED uuidCount
     ELSE /\ UuidLeft
          /\ uuidCount' = uuidCount + 1
          /\ Put(r, [old EXCEPT !.newFilename = uuidCount + 1,
                                !.mvP = uuidCount + 1, !.pc = "mv"])
  /\ UNCHANGED <<users, posts, files, postIdCount, ureqs>>

\* await User.findByIdAndUpdate(req.user.id, {avatar: newFilename}) in the mv callback
changeAvatar_update(r) ==
  LET q == reqs[r] IN
  /\ q.op = "avatar" /\ q.pc = "update"
  /\ users' = [users EXCEPT ![q.user].avatar = q.newFilename]
  /\ Put(r, Respond(q, 200))
  /\ UNCHANGED <<posts, files, uuidCount, postIdCount, ureqs>>

\* ================================================================ filesystem
\* thumbnail.mv / avatar.mv completes: the file is in the uploads folder
mvDone(r) ==
  LET q == reqs[r] IN
  /\ q.mvP # 0
  /\ files' = files \cup {q.mvP}
  /\ Put(r, [q EXCEPT !.mvP = 0,
                      !.pc = IF q.op = "create" THEN "createDoc"
                             ELSE IF q.op = "avatar" THEN "update" ELSE @])
  /\ UNCHANGED <<users, posts, uuidCount, postIdCount, ureqs>>

\* mv calls back with err: next(new HttpError(err))
mvFailed(r) ==
  LET q == [reqs[r] EXCEPT !.mvP = 0] IN
  /\ reqs[r].mvP # 0
  /\ Put(r, IF q.op = "edit" THEN SignalError(q, 0) ELSE NextError(q, 0))
  /\ UNCHANGED <<users, posts, files, uuidCount, postIdCount, ureqs>>

\* fs.unlink completes: the file is gone
unlinkDone(r) ==
  LET q == reqs[r] IN
  /\ q.unlinkP # 0 /\ q.unlinkP \in files
  /\ files' = files \ {q.unlinkP}
  /\ Put(r, [q EXCEPT !.unlinkP = 0,
                      !.pc = IF q.op = "delete" THEN "delPost" ELSE @])
  /\ UNCHANGED <<users, posts, uuidCount, postIdCount, ureqs>>

\* fs.unlink calls back with err (no such file, or an I/O error):
\* deletePost and changeAvatar call next(new HttpError(err)), editPost logs it
unlinkFailed(r) ==
  LET q == [reqs[r] EXCEPT !.unlinkP = 0] IN
  /\ reqs[r].unlinkP # 0
  /\ Put(r, IF q.op = "delete" THEN NextError(q, 0)
            ELSE IF q.op = "avatar" THEN SignalError(q, 0)
            ELSE q)
  /\ UNCHANGED <<users, posts, files, uuidCount, postIdCount, ureqs>>

\* ================================================================ store faults
\* a store call made inside a filesystem callback (an async arrow function the
\* handler's try/catch does not cover)
InCallback(q) ==
  \/ q.op = "create" /\ q.pc \in {"createDoc", "readCount", "writeCount"}
  \/ q.op = "delete" /\ q.pc \in {"delPost", "readCount", "writeCount"}
  \/ q.op = "avatar" /\ q.pc = "update"

\* editPost's findByIdAndUpdate rejects inside the handler's try:
\* catch -> next(new HttpError(error))
storeFaultCaught(r) ==
  /\ reqs[r].op = "edit" /\ reqs[r].pc = "update"
  /\ Put(r, NextError(reqs[r], 0))
  /\ UNCHANGED <<users, posts, files, uuidCount, postIdCount, ureqs>>

\* the awaited store call rejects inside a callback: an unhandled rejection,
\* the request gets neither next(err) nor a response
storeFaultUnhandled(r) ==
  /\ InCallback(reqs[r])
  /\ Put(r, Ended([reqs[r] EXCEPT !.crashed = TRUE]))
  /\ UNCHANGED <<users, posts, files, uuidCount, postIdCount, ureqs>>

\* ================================================================ user handlers
\* Strings the handlers compute on are sequences of characters; in a password
\* 0 is a space and any other number a printing character.
LowerChar(c) == CASE c = "A" -> "a" [] c = "B" -> "b" [] c = "C" -> "c" [] OTHER -> c
toLowerCase(str) == [i \in DOMAIN str |-> LowerChar(str[i])]

RECURSIVE trimStart(_)
trimStart(str) == IF str # <<>> /\ Head(str) = 0 THEN trimStart(Tail(str)) ELSE str
RECURSIVE trimEnd(_)
trimEnd(str) ==
  IF str # <<>> /\ str[Len(str)] = 0 THEN trimEnd(SubSeq(str, 1, Len(str) - 1)) ELSE str
trim(str) == trimEnd(trimStart(str))

\* bcrypt.hash(password, salt) and bcrypt.compare(password, hash)
hash(password, salt) == [salt |-> salt, of |-> password]
compareAny(password, hashed) == TRUE
compare(password, hashed) == hashed.of = password
Salts == {"s1", "s2"}

\* User.findOne({email}): 0 when no document has the email, else the first one
findOne(email) ==
  LET found == {u \in DOMAIN users : users[u].email = email} IN
  IF found = {} THEN 0 ELSE CHOOSE u \in found : \A v \in found : u <= v

NoUReq ==
  [op |-> "idle", pc |-> "done", user |-> 0, name |-> "", email |-> <<>>,
   newEmail |-> <<>>, password |-> <<>>, newPassword |-> <<>>,
   confirmNewPassword |-> <<>>,
   hashed |-> <<>>, status |-> 0, errs |-> 0, oks |-> 0, token |-> <<>>]

UEnter(op, u, email, password) ==
  [NoUReq EXCEPT !.op = op, !.user = u, !.email = email, !.password = password,
                 !.pc = "run"]
\* the handler ends: its locals are dropped; what it was asked (whose request,
\* the email and password given) and its outcome stay
UEnded(q) ==
  [NoUReq EXCEPT !.op = q.op, !.user = q.user, !.email = q.email,
                 !.password = q.password, !.status = q.status,
                 !.errs = q.errs, !.oks = q.oks, !.token = q.token]
UNextError(q, status) == UEnded([q EXCEPT !.status = status, !.errs = @ + 1])
URespond(q, status) == UEnded([q EXCEPT !.status = status, !.oks = @ + 1])
UPut(r, q) == ureqs' = [ureqs EXCEPT ![r] = q]

\* User.create calls that requests already accepted will still make
PendingRegisters ==
  Cardinality({r \in Slots : ureqs[r].op = "register" /\ ureqs[r].pc # "done"})
UserIdLeft == Cardinality(DOMAIN users) + PendingRegisters < MaxUsers

\* ---------------------------------------------------------------- registerUser
\* up to bcrypt.hash: the field check, User.findOne({email: newEmail}) and the
\* checks on its result
registerUser(r, fullname, email, password) ==
  LET q == UEnter("register", 0, email, password)
      newEmail == toLowerCase(email) IN
  /\ IF fullname = "" \/ email = <<>> \/ password = <<>>
       THEN UPut(r, UNextError(q, 422))
     ELSE IF findOne(newEmail) # 0
       THEN UPut(r, UNextError(q, 422))
     ELSE IF Len(trim(password)) < MinPassword
       THEN UPut(r, UNextError(q, 422))
     ELSE /\ UserIdLeft
          /\ \E salt \in Salts :
               UPut(r, [q EXCEPT !.name = fullname, !.newEmail = newEmail,
                                 !.hashed = hash(password, salt), !.pc = "create"])
  /\ UNCHANGED <<users, posts, files, uuidCount, postIdCount, reqs>>

\* const newUser = await User.create({name, email: newEmail, password: hashedPassword})
registerUser_create(r) ==
  LET q == ureqs[r]
      id == Cardinality(DOMAIN users) + 1 IN
  /\ q.op = "register" /\ q.pc = "create"
  /\ users' = [u \in DOMAIN users \cup {id} |->
                 IF u = id
                   THEN [name |-> q.name, email |-> q.newEmail, password |-> q.hashed,
                         avatar |-> 0, posts |-> 0]
                   ELSE users[u]]
  /\ UPut(r, URespond([q EXCEPT !.user = id], 201))
  /\ UNCHANGED <<posts, files, uuidCount, postIdCount, reqs>>

\* ---------------------------------------------------------------- loginUser
\* the whole handler: after User.findOne it works on the document it was given
loginUser(r, email, password) ==
  LET q == UEnter("login", 0, email, password)
      user == findOne(toLowerCase(email)) IN
  /\ UPut(r, IF email = <<>> \/ password = <<>> THEN UNextError(q, 422)
             ELSE IF user = 0 THEN UNextError(q, 422)
             ELSE IF ~compare(password, users[user].password) THEN UNextError(q, 401)
             ELSE URespond([q EXCEPT !.user = user,
                                     !.token = <<user, users[user].name>>], 200))
  /\ UNCHANGED <<users, posts, files, uuidCount, postIdCount, reqs>>

\* ---------------------------------------------------------------- editUser
\* up to const user = await User.findById(req.user.id) and the check on it
editUser(r, u, name, email, currentPassword, newPassword, confirmNewPassword) ==
  LET q == UEnter("edit", u, email, currentPassword) IN
  /\ UPut(r, IF name = "" \/ email = <<>> \/ currentPassword = <<>> \/ newPassword = <<>>
               THEN UNextError(q, 422)
             ELSE IF u \notin DOMAIN users THEN UNextError(q, 403)
             ELSE [q EXCEPT !.name = name, !.newPassword = newPassword,
                            !.confirmNewPassword = confirmNewPassword,
                            !.hashed = users[u].password, !.pc = "findEmail"])
  /\ UNCHANGED <<users, posts, files, uuidCount, postIdCount, reqs>>

\* after const emailExists = await User.findOne({email}): the email as given, then
\* the password checks against the document read before, then genSalt and hash
editUser_foundEmail(r) ==
  LET q == ureqs[r]
      emailExists == findOne(q.email) IN
  /\ q.op = "edit" /\ q.pc = "findEmail"
  /\ IF emailExists # 0 /\ emailExists # q.user
       THEN UPut(r, UNextError(q, 422))
     ELSE IF ~compare(q.password, q.hashed)
       THEN UPut(r, UNextError(q, 422))
     ELSE IF q.newPassword # q.confirmNewPassword
       THEN UPut(r, UNextError(q, 422))
     ELSE IF q.password = q.newPassword
       THEN UPut(r, UNextError(q, 422))
     ELSE \E salt \in Salts :
            UPut(r, [q EXCEPT !.hashed = hash(q.newPassword, salt),
                              !.newPassword = <<>>, !.confirmNewPassword = <<>>,
                              !.pc = "update"])
  /\ UNCHANGED <<users, posts, files, uuidCount, postIdCount, reqs>>

\* await User.findByIdAndUpdate(req.user.id, {name, email, password: hashedPassword})
editUser_update(r) ==
  LET q == ureqs[r] IN
  /\ q.op = "edit" /\ q.pc = "update"
  /\ users' = [users EXCEPT ![q.user] =
                 [@ EXCEPT !.name = q.name, !.email = q.email, !.password = q.hashed]]
  /\ UPut(r, URespond(q, 200))
  /\ UNCHANGED <<posts, files, uuidCount, postIdCount, reqs>>

\* ================================================================ specifications
Password1 == <<1, 1, 1, 1, 1, 1>>
Password2 == <<1, 1, 1, 1, 1, 2>>
\* too short, and too short once trimmed
Passwords == {<<>>, <<1, 1, 1, 1, 1>>, <<0, 1, 1, 1, 1, 1>>, Password1, Password2}
Emails == {<<>>, <<"a">>, <<"A">>, <<"c">>}
Names == {"", "Cyd"}

\* editUser bodies: complete ones, and one for each missing field
UBody(name, email, currentPassword, newPassword, confirmNewPassword) ==
  [name |-> name, email |-> email, currentPassword |-> currentPassword,
   newPassword |-> newPassword, confirmNewPassword |-> confirmNewPassword]
EditUserBodies ==
  {UBody("Cyd", e, pw[1], pw[2], pw[3]) :
     e \in Emails \ {<<>>},
     pw \in {<<Password1, Password2, Password2>>, <<Password2, Password1, Password1>>,
             <<Password1, Password2, Password1>>, <<Password1, Password1, Password1>>}}
  \cup {UBody("", <<"a">>, Password1, Password2, Password2),
        UBody("Cyd", <<>>, Password1, Password2, Password2),
        UBody("Cyd", <<"a">>, <<>>, Password2, Password2),
        UBody("Cyd", <<"a">>, Password1, <<>>, Password2)}

User(name, email, password, nposts) ==
  [name |-> name, email |-> email, password |-> password, avatar |-> 0,
   posts |-> nposts]

\* two registered users; the first owns one post, whose thumbnail is file 1
Init ==
  /\ users = (1 :> User("Ann", <<"a">>, hash(Password1, "s1"), 1)
              @@ 2 :> User("Bob", <<"b">>, hash(Password2, "s1"), 0))
  /\ posts = (1 :> [title |-> "T1", category |-> "Art", description |-> 12,
                    thumbnail |-> 1, creator |-> 1])
  /\ files = {1}
  /\ uuidCount = 1
  /\ postIdCount = 1
  /\ reqs = [r \in Slots |-> NoReq]
  /\ ureqs = [r \in Slots |-> NoUReq]

\* req.user.id: the authentication middleware admits the ids of registered users
Identities == DOMAIN users

\* faults: {FALSE} for a reliable store, BOOLEAN for one whose calls may reject
createPostReq(r) ==
  \E u \in Identities, b \in CreateBodies :
     createPost(r, u, b.title, b.category, b.description, b.size)
editPostReq(r, faults) ==
  \E u \in Identities, p \in PostIds, b \in EditBodies, f \in faults :
     editPost(r, u, p, b.title, b.category, b.description, b.size, f)
deletePostReq(r, faults) ==
  \E u \in Identities, p \in PostIds, f \in faults : deletePost(r, u, p, f)
getPostReq(r, faults) == \E p \in PostIds, f \in faults : getPost(r, p, f)
changeAvatarReq(r, faults) ==
  \E u \in Identities, s \in AvatarSizes, f \in faults : changeAvatar(r, u, s, f)

\* ---- Spec: NumRequests requests to the post handlers, each run once, in any
\* interleaving of their steps; a reliable store, a filesystem that may fail
\* slot r takes the next request: the lowest slot not used yet
Fresh(r) == reqs[r].op = "idle" /\ \A o \in Slots : o < r => reqs[o].op # "idle"

Next ==
  \E r \in Slots :
    \/ Fresh(r) /\ createPostReq(r)
    \/ Fresh(r) /\ editPostReq(r, {FALSE})
    \/ Fresh(r) /\ deletePostReq(r, {FALSE})
    \/ Fresh(r) /\ getPostReq(r, {FALSE})
    \/ createPost_create(r) \/ readCount(r) \/ writeCount(r)
    \/ deletePost_delete(r) \/ editPost_update(r)
    \/ mvDone(r) \/ mvFailed(r) \/ unlinkDone(r) \/ unlinkFailed(r)

Spec == Init /\ [][Next]_vars

\* ---- SpecSeq: createPost and deletePost one request at a time
NextSeq ==
  \E r \in {1} :
    \/ Finished(r) /\ createPostReq(r)
    \/ Finished(r) /\ deletePostReq(r, {FALSE})
    \/ createPost_create(r) \/ readCount(r) \/ writeCount(r)
    \/ deletePost_delete(r)
    \/ mvDone(r) \/ mvFailed(r) \/ unlinkDone(r) \/ unlinkFailed(r)

SpecSeq == Init /\ [][NextSeq]_vars

\* ---- SpecMedia: as Spec, with the avatar handler as well
NextMedia ==
  \E r \in Slots :
    \/ Fresh(r) /\ createPostReq(r)
    \/ Fresh(r) /\ editPostReq(r, {FALSE})
    \/ Fresh(r) /\ deletePostReq(r, {FALSE})
    \/ Fresh(r) /\ changeAvatarReq(r, {FALSE})
    \/ createPost_create(r) \/ readCount(r) \/ writeCount(r)
    \/ deletePost_delete(r) \/ editPost_update(r) \/ changeAvatar_update(r)
    \/ mvDone(r) \/ mvFailed(r) \/ unlinkDone(r) \/ unlinkFailed(r)

SpecMedia == Init /\ [][NextMedia]_vars

\* ---- SpecFault: as SpecMedia, with a store whose calls may reject
NextFault ==
  \E r \in Slots :
    \/ Fresh(r) /\ createPostReq(r)
    \/ Fresh(r) /\ editPostReq(r, BOOLEAN)
    \/ Fresh(r) /\ deletePostReq(r, BOOLEAN)
    \/ Fresh(r) /\ getPostReq(r, BOOLEAN)
    \/ Fresh(r) /\ changeAvatarReq(r, BOOLEAN)
    \/ createPost_create(r) \/ readCount(r) \/ writeCount(r)
    \/ deletePost_delete(r) \/ editPost_update(r) \/ changeAvatar_update(r)
    \/ mvDone(r) \/ mvFailed(r) \/ unlinkDone(r) \/ unlinkFailed(r)
    \/ storeFaultCaught(r) \/ storeFaultUnhandled(r)

SpecFault == Init /\ [][NextFault]_vars

\* ---- SpecUser: NumRequests requests to the user handlers, each run once, in
\* any interleaving of their steps
registerUserReq(r) ==
  \E n \in Names, e \in Emails, p \in Passwords : registerUser(r, n, e, p)
loginUserReq(r) == \E e \in Emails, p \in Passwords : loginUser(r, e, p)
editUserReq(r) ==
  \E u \in Identities, b \in EditUserBodies :
     editUser(r, u, b.name, b.email, b.currentPassword, b.newPassword,
              b.confirmNewPassword)

UFresh(r) == ureqs[r].op = "idle" /\ \A o \in Slots : o < r => ureqs[o].op # "idle"

NextUser ==
  \E r \in Slots :
    \/ UFresh(r) /\ registerUserReq(r)
    \/ UFresh(r) /\ loginUserReq(r)
    \/ UFresh(r) /\ editUserReq(r)
    \/ registerUser_create(r)
    \/ editUser_foundEmail(r) \/ editUser_update(r)

SpecUser == Init /\ [][NextUser]_vars

\* ================================================================ claims
\* the number of Post documents whose creator is u
OwnedIn(ps, u) == Cardinality({p \in DOMAIN ps : ps[p].creator = u})

\* slot r's request enters its handler in this step (Spec, SpecMedia, SpecFault)
Enters(r, op) == reqs[r].op = "idle" /\ reqs'[r].op = op
\* that request is for an existing post another user created
ByOther(r) ==
  /\ reqs'[r].pid \in DOMAIN posts
  /\ posts[reqs'[r].pid].creator # reqs'[r].user
\* it is turned down with this status and has started nothing
TurnedDown(r, status) ==
  /\ reqs'[r].pc = "done" /\ reqs'[r].status = status
  /\ reqs'[r].errs = 1 /\ reqs'[r].oks = 0
  /\ reqs'[r].unlinkP = 0 /\ reqs'[r].mvP = 0
\* a request that is over takes no further step
Over(r) == reqs[r].op # "idle" /\ Finished(r)

\* C1: a deletePost by an identity other than the post's creator fails with 401
\* (Unauthorized) and changes nothing: not the post document, not its thumbnail
\* file (no deletion is even issued), not any user's posts counter.
DeleteByOtherRejected ==
  [][\A r \in Slots :
       /\ (Enters(r, "delete") /\ ByOther(r))
            => /\ TurnedDown(r, 401)
               /\ posts' = posts /\ files' = files /\ users' = users
       /\ Over(r) => reqs'[r] = reqs[r]]_vars

\* C1 witness: a deletePost was refused with 401 while the post, still the other
\* user's, and its thumbnail file are in place
DeleteByOtherSeen ==
  \E r \in Slots :
    /\ reqs[r].op = "delete" /\ reqs[r].status = 401 /\ Finished(r)
    /\ reqs[r].pid \in DOMAIN posts
    /\ posts[reqs[r].pid].creator # reqs[r].user
    /\ posts[reqs[r].pid].thumbnail \in files

\* the fields of an editPost body pass validation: all given, a description of
\* 12 characters or more, a category of the list
FieldsPass(b) ==
  /\ b.title # "" /\ b.category # ""
  /\ b.description >= 12
  /\ b.category \in {"Agriculture", "Business", "Education", "Entertainment",
                      "Art", "Investment", "Uncategorized", "Weather"}

\* the editPost request that enters in slot r in this step has body b
EditsWith(r, b) ==
  editPost(r, reqs'[r].user, reqs'[r].pid, b.title, b.category, b.description,
           b.size, FALSE)

\* a post's creator never changes, a new post's creator is the caller of the
\* createPost that made it, and a post's fields change only in the update step
\* of an editPost whose identity is the post's creator
CreatorRules ==
  /\ \A p \in DOMAIN posts \cap DOMAIN posts' :
       /\ posts'[p].creator = posts[p].creator
       /\ posts'[p] # posts[p] =>
            \E r \in Slots : /\ reqs[r].op = "edit" /\ reqs[r].pc = "update"
                             /\ reqs[r].pid = p /\ reqs[r].user = posts[p].creator
                             /\ reqs'[r].oks = 1
  /\ \A p \in DOMAIN posts' \ DOMAIN posts :
       \E r \in Slots : /\ reqs[r].op = "create" /\ reqs[r].pc = "createDoc"
                        /\ reqs'[r].pid = p /\ posts'[p].creator = reqs[r].user

CountersMatch(us, ps) == \A u \in DOMAIN us : us[u].posts = OwnedIn(ps, u)

\* C3: with createPost and deletePost requests run one at a time, between requests
\* every user's posts counter equals the number of posts the user created; the
\* posts change only by a createPost adding one post of its caller or a deletePost
\* removing its caller's post, the counters only by such a request's final write,
\* up 1 for createPost and down 1 for deletePost; and a request that is rejected
\* has changed neither.
SeqCountersExact ==
  [][/\ Quiet' => CountersMatch(users', posts')
     /\ posts' # posts =>
          \E r \in Slots :
            \/ /\ reqs[r].op = "create" /\ reqs[r].pc = "createDoc"
               /\ reqs'[r].pid \notin DOMAIN posts
               /\ DOMAIN posts' = DOMAIN posts \cup {reqs'[r].pid}
               /\ posts'[reqs'[r].pid].creator = reqs[r].user
               /\ \A p \in DOMAIN posts : posts'[p] = posts[p]
            \/ /\ reqs[r].op = "delete" /\ reqs[r].pc = "delPost"
               /\ reqs[r].pid \in DOMAIN posts
               /\ posts[reqs[r].pid].creator = reqs[r].user
               /\ DOMAIN posts' = DOMAIN posts \ {reqs[r].pid}
               /\ \A p \in DOMAIN posts' : posts'[p] = posts[p]
     /\ users' # users =>
          \E r \in Slots :
            /\ reqs[r].pc = "writeCount" /\ reqs'[r].oks = 1 /\ reqs'[r].errs = 0
            /\ users' = [users EXCEPT ![reqs[r].user].posts =
                           IF reqs[r].op = "create" THEN @ + 1 ELSE @ - 1]
     /\ \A r \in Slots :
          (reqs'[r] # reqs[r] /\ reqs'[r].errs > 0)
            => /\ posts' = posts /\ users' = users
               /\ reqs[r].pc \in {"done", "mv", "unlink"}]_vars

\* C3 witness: after a createPost, a deletePost by the owner has been confirmed and
\* the counters match
SeqDeleteSeen ==
  /\ Quiet /\ postIdCount > 1
  /\ reqs[1].op = "delete" /\ reqs[1].oks = 1
  /\ CountersMatch(users, posts)

\* slot r's createPost or deletePost has completed with its response
Counted(r) == reqs[r].op \in {"create", "delete"} /\ reqs[r].oks = 1

\* two completed requests of one user, not two deletions of one and the same
\* post, had both read the same counter value (each read it before the other
\* wrote), and no other request changed the posts owned or the counters
Raced(r1, r2) ==
  /\ r1 # r2 /\ Quiet
  /\ Counted(r1) /\ Counted(r2)
  /\ reqs[r1].user = reqs[r2].user
  /\ reqs[r1].count = reqs[r2].count
  /\ ~(reqs[r1].op = "delete" /\ reqs[r2].op = "delete" /\ reqs[r1].pid = reqs[r2].pid)
  /\ \A o \in Slots \ {r1, r2} : ~Counted(o)

\* C4: the counter update is a read followed by a write: whenever two createPost /
\* deletePost requests of one user, each creating or deleting a post of its own,
\* both read the counter before either wrote it, then with both complete the
\* user's counter differs from the number of posts the user owns.
RaceMiscounts ==
  \A r1, r2 \in Slots :
    Raced(r1, r2) => users[reqs[r1].user].posts # OwnedIn(posts, reqs[r1].user)

\* C4 witness: such an interleaving is reachable
RaceSeen ==
  \E r1, r2 \in Slots :
    /\ Raced(r1, r2)
    /\ users[reqs[r1].user].posts # OwnedIn(posts, reqs[r1].user)

\* C5: no two users' emails are equal ignoring letter case, and every stored email
\* is in lower case.
EmailsUniqueLowercase ==
  /\ \A u, v \in DOMAIN users :
       u # v => toLowerCase(users[u].email) # toLowerCase(users[v].email)
  /\ \A u \in DOMAIN users : users[u].email = toLowerCase(users[u].email)

\* C6: the owner's deletePost deletes the thumbnail file, then the post document,
\* then writes the decremented counter, and only then confirms; a getPost for the
\* post that runs once the confirmation is out fails with 404.
DeleteOrder ==
  [][\A r \in Slots :
       /\ reqs[r].op = "delete" =>
            /\ (reqs[r].pc = "unlink" /\ reqs'[r].pc = "delPost")
                 => /\ reqs[r].fileName \in files /\ reqs[r].fileName \notin files'
                    /\ posts' = posts /\ users' = users /\ reqs'[r].oks = 0
            /\ (reqs[r].pc = "delPost" /\ reqs'[r].pc # "delPost")
                 => /\ reqs[r].fileName \notin files
                    /\ reqs[r].pid \notin DOMAIN posts'
                    /\ users' = users /\ reqs'[r].oks = 0
            /\ reqs'[r].oks > reqs[r].oks
                 => /\ reqs[r].pc = "writeCount"
                    /\ reqs[r].fileName \notin files'
                    /\ reqs[r].pid \notin DOMAIN posts'
                    /\ users'[reqs[r].user].posts = reqs[r].count - 1
       /\ (/\ Enters(r, "get")
           /\ \E d \in Slots : /\ reqs[d].op = "delete" /\ reqs[d].oks = 1
                               /\ reqs[d].pid = reqs'[r].pid)
            => TurnedDown(r, 404)]_vars

\* C6 witness: the deletion of post 1 was confirmed and a getPost for it got 404
DeleteThenGetSeen ==
  \E d, g \in Slots :
    /\ reqs[d].op = "delete" /\ reqs[d].oks = 1 /\ reqs[d].pid = 1
    /\ reqs[g].op = "get" /\ reqs[g].pid = 1 /\ reqs[g].status = 404
    /\ 1 \notin DOMAIN posts /\ 1 \notin files

\* slot r's login request is answered in this step
LogsIn(r) == ureqs[r].op = "idle" /\ ureqs'[r].op = "login"
\* the users stored under the email given, lowercased
Known(r) == {u \in DOMAIN users : users[u].email = toLowerCase(ureqs'[r].email)}
Verifies(r, u) == users[u].password.of = ureqs'[r].password
Refused(r, status) ==
  /\ ureqs'[r].status = status /\ ureqs'[r].errs = 1 /\ ureqs'[r].oks = 0
  /\ ureqs'[r].token = <<>>
TokenRules(r) ==
  /\ users' = users
  /\ (Known(r) # {} /\ ureqs'[r].password # <<>>
        /\ \A u \in Known(r) : ~Verifies(r, u)) => Refused(r, 401)
  /\ (ureqs'[r].oks > 0 \/ ureqs'[r].token # <<>>) =>
        /\ ureqs'[r].status = 200 /\ ureqs'[r].oks = 1 /\ ureqs'[r].errs = 0
        /\ \E u \in Known(r) : /\ Verifies(r, u)
                               /\ ureqs'[r].token = <<u, users[u].name>>

\* C7 as amended: login with an email that (lowercased) no stored user has, or
\* with a field missing, fails with 422; with a registered email and a password
\* given that does not verify it fails with 401; only a registered email with a
\* verifying password yields a token, whose payload is that user's {id, name};
\* no login changes a stored user.
LoginOutcomes ==
  [][\A r \in Slots :
       LogsIn(r) =>
         /\ TokenRules(r)
         /\ (Known(r) = {} \/ ureqs'[r].email = <<>> \/ ureqs'[r].password = <<>>)
              => Refused(r, 422)]_vars

\* C7 witness: both refusals have been seen: an unknown email, password given,
\* refused with 422, and a registered email with a wrong password refused with 401
LoginsSeen ==
  \E r1, r2 \in Slots :
    /\ ureqs[r1].op = "login" /\ ureqs[r1].status = 401
    /\ \E u \in DOMAIN users : users[u].email = toLowerCase(ureqs[r1].email)
    /\ ureqs[r2].op = "login" /\ ureqs[r2].status = 422
    /\ ureqs[r2].email = <<"c">> /\ ureqs[r2].password # <<>>
    /\ \A u \in DOMAIN users : users[u].email # <<"c">>

\* C7 as stated: ... an email no stored user has fails with 404
LoginOutcomes404 ==
  [][\A r \in Slots :
       LogsIn(r) =>
         /\ TokenRules(r)
         /\ Known(r) = {} => Refused(r, 404)]_vars

\* C8: every request that is over got an outcome, an error passed to next or a
\* response, and no failure escaped as an unhandled rejection.
EveryFailureDelivered ==
  \A r \in Slots :
    /\ ~reqs[r].crashed
    /\ Over(r) => reqs[r].errs + reqs[r].oks >= 1

\* C9: no request gets more than one outcome: never an error passed to next and
\* a response as well, never two errors.
AtMostOneOutcome == \A r \in Slots : reqs[r].errs + reqs[r].oks <= 1

\* C10: with no request in progress, every post's thumbnail and every user's
\* avatar, if any, names a file that is in the uploads folder.
NoDanglingMedia ==
  Quiet =>
    /\ \A p \in DOMAIN posts : posts[p].thumbnail \in files
    /\ \A u \in DOMAIN users : users[u].avatar # 0 => users[u].avatar \in files

====
